---------------------------- MODULE Spec2Model ----------------------------
(***************************************************************************)
(* Urban Microbiome API: the in-memory API-key manager, the monthly rate   *)
(* limiter, the global stats and the HTTP handlers of app/main.py.         *)
(*                                                                         *)
(* The application is a single asyncio process.  A coroutine runs without  *)
(* interruption until it awaits something that suspends; log_request and   *)
(* check_rate_limit contain no await, so the dependency get_api_key and    *)
(* each endpoint function run as one step each.  Several requests can be   *)
(* in flight at once (slots), interleaving between those steps.            *)
(*                                                                         *)
(* A datetime is modelled as [month, us]: the calendar month (year and     *)
(* month together) and the microsecond field.  Day, hour, minute and       *)
(* second are left out: the only datetimes the code compares are results   *)
(* of replace(day=1, hour=0, minute=0, second=0), where they are constant. *)
(* The monitors (security_logs, failed_attempts, response_times) and the   *)
(* created_at and last_used fields of a key are written by the handlers    *)
(* and read by no decision; they are left out.                             *)
(***************************************************************************)
EXTENDS Integers, FiniteSets, Sequences, TLC

\* ------------------------------------------------------------- bounds
MaxKeys == 1
MaxMonth == 1
MaxMicro == 1
MaxRequests == 2
MaxInFlight == 2

\* ------------------------------------------------------------- values
PlanTier == {"basic", "pro", "enterprise"}

Users == {"u1"}

Slots == 1..MaxInFlight

None == [none |-> TRUE]

\* A request header X-API-Key: absent, a token the server never issued, or
\* one of the tokens generate_api_key can return.
NoHeader == <<>>

Forged == <<"forged">>

Token(i) == <<"umapi_", i>>

Tokens == {Token(i) : i \in 1..MaxKeys}

\* What a client can send once n tokens have been issued: a token nobody
\* was given is not guessed.
Headers(n) == {NoHeader, Forged} \cup {Token(i) : i \in 1..n}

Times == [month : 0..MaxMonth, us : 0..MaxMicro]

\* datetime.__lt__ on two datetimes with the same day, hour, minute, second
Before(a, b) ==
    \/ a.month < b.month
    \/ a.month = b.month /\ a.us < b.us

Epoch == [month |-> 0, us |-> 0]

\* ------------------------------------------------------------- plans
\* RateLimiter.limits
limits == [basic |-> 1000, pro |-> 5000, enterprise |-> 50000]

\* plan_limits of check_subscription_limits
plan_limits == [basic |-> 1000, pro |-> 5000, enterprise |-> 50000]

\* PRICING_PLANS[p].requests_limit
PRICING_PLANS == [basic |-> [tier |-> "basic", requests_limit |-> 1000],
                  pro |-> [tier |-> "pro", requests_limit |-> 5000],
                  enterprise |-> [tier |-> "enterprise", requests_limit |-> 50000]]

\* check_subscription_limits(subscription)
check_subscription_limits(subscription) ==
    subscription.requests_used < plan_limits[subscription.plan]

\* ------------------------------------------------------------- helpers
\* d[k] = v on a dict
Put(d, k, v) == [x \in DOMAIN d \cup {k} |-> IF x = k THEN v ELSE d[x]]

EmptyDict == [x \in {} |-> None]

\* datetime.utcnow().replace(day=1, hour=0, minute=0, second=0): the
\* microsecond field is kept.
CurrentMonth(t) == [month |-> t.month, us |-> t.us]

\* ------------------------------------------------------------- RateLimiter
\* check_rate_limit whose increment is lost.
CheckRateLimitNoIncrement(reqs, keys, api_key, t) ==
    IF api_key \notin DOMAIN keys
    THEN [requests |-> reqs, result |-> FALSE]
    ELSE LET cm == CurrentMonth(t)
             r1 == IF api_key \notin DOMAIN reqs
                   THEN Put(reqs, api_key, [count |-> 0, reset_time |-> cm])
                   ELSE reqs
             r2 == IF Before(r1[api_key].reset_time, cm)
                   THEN Put(r1, api_key, [count |-> 0, reset_time |-> cm])
                   ELSE r1
         IN  [requests |-> r2,
              result |-> r2[api_key].count <= limits[keys[api_key].plan]]

\* RateLimiter.check_rate_limit(api_key, api_keys) at clock reading t:
\* the new RateLimiter.requests and the returned boolean.
CheckRateLimit(reqs, keys, api_key, t) ==
    IF api_key \notin DOMAIN keys
    THEN [requests |-> reqs, result |-> FALSE]
    ELSE LET cm == CurrentMonth(t)
             r1 == IF api_key \notin DOMAIN reqs
                   THEN Put(reqs, api_key, [count |-> 0, reset_time |-> cm])
                   ELSE reqs
             r2 == IF Before(r1[api_key].reset_time, cm)
                   THEN Put(r1, api_key, [count |-> 0, reset_time |-> cm])
                   ELSE r1
             r3 == [r2 EXCEPT ![api_key].count = @ + 1]
         IN  [requests |-> r3,
              result |-> r3[api_key].count <= limits[keys[api_key].plan]]

\* ------------------------------------------------------------- APIKeyManager
\* validate_api_key that does not look at is_active.
ValidateApiKeyAnyState(keys, api_key) == api_key \in DOMAIN keys

\* APIKeyManager.validate_api_key(api_key): TRUE when the key data is
\* returned, FALSE when None is.
ValidateApiKey(keys, api_key) ==
    IF api_key \notin DOMAIN keys
    THEN FALSE
    ELSE IF ~keys[api_key].is_active
    THEN FALSE
    ELSE TRUE

\* APIKeyManager.generate_api_key(user_id, plan) storing the token api_key.
GenerateApiKey(keys, api_key, user_id, plan) ==
    Put(keys, api_key, [key |-> api_key, user_id |-> user_id, plan |-> plan,
                        is_active |-> TRUE])

\* deactivate_api_key that flips is_active instead of clearing it.
DeactivateApiKeyToggle(keys, api_key) ==
    IF api_key \in DOMAIN keys
    THEN [api_keys |-> [keys EXCEPT ![api_key].is_active = ~@], result |-> TRUE]
    ELSE [api_keys |-> keys, result |-> FALSE]

\* APIKeyManager.deactivate_api_key(api_key): the new map and the returned
\* boolean.
DeactivateApiKey(keys, api_key) ==
    IF api_key \in DOMAIN keys
    THEN [api_keys |-> [keys EXCEPT ![api_key].is_active = FALSE], result |-> TRUE]
    ELSE [api_keys |-> keys, result |-> FALSE]

\* ------------------------------------------------------------- state
VARIABLES
    api_keys,     \* APIKeyManager.api_keys: token -> APIKeyModel
    requests,     \* RateLimiter.requests: token -> [count, reset_time]
    stats,        \* stats: total_samples_analyzed, last_analysis
    now,          \* the last reading of datetime.utcnow() by check_rate_limit
    issued,       \* how many tokens token_urlsafe has produced (all distinct)
    inflight,     \* the protected requests being handled, one per slot
    resp,         \* the last response sent
    payments,     \* session.customer_email of the checkout.session.completed events received
    served,       \* requests received so far
    accepted,     \* per token: the month of its last check_rate_limit call and how many
                  \* calls of that month returned True
    since,        \* per token: check_rate_limit calls since its count was last zeroed
    lost,         \* tokens issued by a process that has since restarted
    raced,        \* tokens for which check_rate_limit ran while another request
                  \* with the same key was between get_api_key and its own call
    revoked       \* tokens for which deactivate_api_key has returned True in
                  \* this process

vars == <<api_keys, requests, stats, now, issued, inflight, resp,
          payments, served, accepted, since, lost, raced, revoked>>

\* A slot: where the request is (pc: idle, auth, body), its route and its
\* X-API-Key header.
IdleSlot == [pc |-> "idle", endpoint |-> "none", header |-> NoHeader]

\* Slots are interchangeable: a new request takes the first idle one.
NextSlot(s) ==
    /\ inflight[s].pc = "idle"
    /\ \A o \in Slots : inflight[o].pc = "idle" => s <= o

\* A response: the route, the X-API-Key and stripe-signature headers of the
\* request, the status, whether the status comes from an exception caught
\* in the endpoint body, and the key returned (key/generate only).
Response(endpoint, header, sig, status, raised, key) ==
    [endpoint |-> endpoint, header |-> header, sig |-> sig,
     status |-> status, raised |-> raised, key |-> key]

NoResponse == Response("none", NoHeader, "none", 0, FALSE, NoHeader)

\* stats = {"total_samples_analyzed": 0, "last_analysis": None}
StatsInit == [total_samples_analyzed |-> 0, last_analysis |-> None]

\* Module initialisation of app/main.py: APIKeyManager(), RateLimiter(),
\* stats.
Init ==
    /\ api_keys = EmptyDict
    /\ requests = EmptyDict
    /\ stats = StatsInit
    /\ now = Epoch
    /\ issued = 0
    /\ inflight = [s \in Slots |-> IdleSlot]
    /\ resp = NoResponse
    /\ payments = {}
    /\ served = 0
    /\ accepted = [k \in Tokens |-> [month |-> 0, n |-> 0]]
    /\ since = [k \in Tokens |-> 0]
    /\ lost = {}
    /\ raced = {}
    /\ revoked = {}

\* ------------------------------------------------------------- the clock
\* The readings datetime.utcnow() can give after the reading `last`: the
\* month never goes back; the microsecond field is any value, because the
\* seconds in between are not modelled.
Readings(last) == {t \in Times : t.month >= last.month}

\* ------------------------------------------------------------- protected endpoints
\* A request to POST /api/v1/analyze or GET /api/v1/stats arrives
\* (monitoring_middleware up to call_next).
Receive(s, endpoint, header) ==
    /\ NextSlot(s)
    /\ served < MaxRequests
    /\ served' = served + 1
    /\ inflight' = [inflight EXCEPT ![s] =
           [pc |-> "auth", endpoint |-> endpoint, header |-> header]]
    /\ UNCHANGED <<api_keys, requests, stats, now, issued, resp, payments,
                   accepted, since, lost, raced, revoked>>

\* The dependency get_api_key.
GetApiKey(s) ==
    /\ inflight[s].pc = "auth"
    /\ LET r == inflight[s]
       IN  IF r.header = NoHeader
           THEN /\ resp' = Response(r.endpoint, r.header, "none", 401, FALSE, NoHeader)
                /\ inflight' = [inflight EXCEPT ![s] = IdleSlot]
           ELSE IF ~ValidateApiKey(api_keys, r.header)
           THEN /\ resp' = Response(r.endpoint, r.header, "none", 403, FALSE, NoHeader)
                /\ inflight' = [inflight EXCEPT ![s] = IdleSlot]
           ELSE /\ inflight' = [inflight EXCEPT ![s].pc = "body"]
                /\ UNCHANGED resp
    /\ UNCHANGED <<api_keys, requests, stats, now, issued, payments, served,
                   accepted, since, lost, raced, revoked>>

\* One more True answer at clock reading t.
Accept(a, t) ==
    [month |-> t.month, n |-> IF a.month = t.month THEN a.n + 1 ELSE 1]

\* The stats update made whatever check_rate_limit answered.
AnalysisStatsAlways(st, ok, exc, t) ==
    [total_samples_analyzed |-> st.total_samples_analyzed + 1,
     last_analysis |-> t]

\* analyze_sample after check_rate_limit answered ok: the 429 branch leaves
\* the stats alone; the try block (encrypt, analyze, update stats, log)
\* updates them unless an exception is raised before the update ("early");
\* an exception after it ("late": in the log call, or when the returned
\* result cannot be rendered as JSON) comes too late.
AnalysisStats(st, ok, exc, t) ==
    IF ~ok \/ exc = "early"
    THEN st
    ELSE [total_samples_analyzed |-> st.total_samples_analyzed + 1,
          last_analysis |-> t]

\* The status that tells which exception was caught.
AnalysisStatusByCause(ok, exc) ==
    IF ~ok THEN 429 ELSE IF exc = "none" THEN 200
    ELSE IF exc = "early" THEN 422 ELSE 500

\* The status analyze_sample answers with.
AnalysisStatus(ok, exc) ==
    IF ~ok THEN 429 ELSE IF exc = "none" THEN 200 ELSE 500

\* The body of analyze_sample, entered with the key data get_api_key
\* returned, its clock reading t being an input.
AnalyzeSample(s) ==
    /\ inflight[s].pc = "body"
    /\ inflight[s].endpoint = "analyze"
    /\ \E exc \in {"none", "early", "late"}, t \in Readings(now) :
         LET k == inflight[s].header
             rl == CheckRateLimit(requests, api_keys, k, t)
             zeroed == \/ k \notin DOMAIN requests
                       \/ Before(requests[k].reset_time, CurrentMonth(t))
         IN  /\ rl.result \/ exc = "none"
             /\ now' = t
             /\ requests' = rl.requests
             /\ since' = [since EXCEPT ![k] = IF zeroed THEN 1 ELSE @ + 1]
             /\ accepted' = IF rl.result
                            THEN [accepted EXCEPT ![k] = Accept(@, t)]
                            ELSE accepted
             /\ stats' = AnalysisStats(stats, rl.result, exc, t)
             /\ resp' = Response("analyze", k, "none", AnalysisStatus(rl.result, exc),
                                 rl.result /\ exc # "none", NoHeader)
    /\ raced' = IF \E o \in Slots \ {s} : /\ inflight[o].pc = "body"
                                            /\ inflight[o].endpoint = "analyze"
                                            /\ inflight[o].header = inflight[s].header
                THEN raced \cup {inflight[s].header} ELSE raced
    /\ inflight' = [inflight EXCEPT ![s] = IdleSlot]
    /\ UNCHANGED <<api_keys, issued, payments, served, lost, revoked>>

\* The body of get_stats.
GetStats(s) ==
    /\ inflight[s].pc = "body"
    /\ inflight[s].endpoint = "stats"
    /\ resp' = Response("stats", inflight[s].header, "none", 200, FALSE, NoHeader)
    /\ inflight' = [inflight EXCEPT ![s] = IdleSlot]
    /\ UNCHANGED <<api_keys, requests, stats, now, issued, payments, served,
                   accepted, since, lost, raced, revoked>>

\* ------------------------------------------------------------- open endpoints
\* POST /api/v1/key/generate?user_id=..&plan=..  No authentication and no
\* payment is looked up.  An exception can be raised while the key is built
\* ("early": nothing is stored, the token is dropped) or after
\* generate_api_key returned ("late": in the log call or while
\* APIKeyResponse is built, e.g. replace(year=..) on 29 February).
GenerateKey(user_id, plan) ==
    /\ served < MaxRequests
    /\ served' = served + 1
    /\ \E exc \in {"none", "early", "late"} :
         LET api_key == Token(issued + 1)
         IN  /\ exc = "early" \/ issued < MaxKeys
             /\ issued' = IF exc = "early" THEN issued ELSE issued + 1
             /\ api_keys' = IF exc = "early" THEN api_keys
                            ELSE GenerateApiKey(api_keys, api_key, user_id, plan)
             /\ resp' = IF exc = "none"
                        THEN Response("generate", NoHeader, "none", 200, FALSE, api_key)
                        ELSE Response("generate", NoHeader, "none", 500, TRUE, NoHeader)
    /\ UNCHANGED <<requests, stats, now, inflight, payments, accepted, since,
                   lost, raced, revoked>>

\* POST /api/v1/subscribe: a Stripe checkout session is created; nothing is
\* stored by the server.  stripe.checkout.Session.create may raise.
CreateSubscription ==
    /\ served < MaxRequests
    /\ served' = served + 1
    /\ \E raised \in BOOLEAN :
         resp' = Response("subscribe", NoHeader, "none",
                          IF raised THEN 500 ELSE 200, raised, NoHeader)
    /\ UNCHANGED <<api_keys, requests, stats, now, issued, inflight, payments,
                   accepted, since, lost, raced, revoked>>

\* The status the other endpoints answer a caught exception with.
GenericErrorStatus == AnalysisStatus(TRUE, "late")

\* The status stripe_webhook answers with when its try block raises.
WebhookErrorStatus == 400

\* POST /api/v1/webhook.  construct_event raises unless the stripe-signature
\* header verifies; a verified checkout.session.completed event is logged.
StripeWebhook(sig, type, customer) ==
    /\ served < MaxRequests
    /\ served' = served + 1
    /\ IF sig # "valid"
       THEN /\ resp' = Response("webhook", NoHeader, sig, WebhookErrorStatus, TRUE, NoHeader)
            /\ UNCHANGED payments
       ELSE /\ resp' = Response("webhook", NoHeader, sig, 200, FALSE, NoHeader)
            /\ payments' = IF type = "checkout.session.completed"
                           THEN payments \cup {customer} ELSE payments
    /\ UNCHANGED <<api_keys, requests, stats, now, issued, inflight,
                   accepted, since, lost, raced, revoked>>

\* ------------------------------------------------------------- operator calls
\* api_key_manager.deactivate_api_key(api_key)
Deactivate(api_key) ==
    /\ api_keys' = DeactivateApiKey(api_keys, api_key).api_keys
    /\ revoked' = IF DeactivateApiKey(api_keys, api_key).result
                  THEN revoked \cup {api_key} ELSE revoked
    /\ UNCHANGED <<requests, stats, now, issued, inflight, resp, payments,
                   served, accepted, since, lost, raced>>

\* A key map that survives the restart.
PersistedApiKeys(keys) == keys

\* APIKeyManager.__init__ in a new process: nothing of the old map is read.
RestartApiKeys(keys) == EmptyDict

\* RateLimiter.__init__ in a new process: nothing of the old counters is read.
RestartRequests(reqs) == EmptyDict

\* The process is restarted: the module is initialised again and the
\* requests in flight are dropped.  The clock and Stripe are outside it.
Restart ==
    /\ api_keys' = RestartApiKeys(api_keys)
    /\ requests' = RestartRequests(requests)
    /\ stats' = StatsInit
    /\ inflight' = [s \in Slots |-> IdleSlot]
    /\ resp' = NoResponse
    /\ lost' = lost \cup DOMAIN api_keys
    /\ since' = [k \in Tokens |-> 0]
    /\ raced' = {}
    /\ revoked' = {}
    /\ UNCHANGED <<now, issued, payments, served, accepted>>

\* ------------------------------------------------------------- specification
Next ==
    \/ \E s \in Slots, e \in {"analyze", "stats"}, h \in Headers(issued) : Receive(s, e, h)
    \/ \E s \in Slots : GetApiKey(s)
    \/ \E s \in Slots : AnalyzeSample(s)
    \/ \E s \in Slots : GetStats(s)
    \/ \E u \in Users, p \in PlanTier : GenerateKey(u, p)
    \/ CreateSubscription
    \/ \E sig \in {"missing", "wrong", "valid"},
          ty \in {"checkout.session.completed", "invoice.paid"},
          u \in Users : StripeWebhook(sig, ty, u)
    \/ \E k \in Headers(issued) \ {NoHeader} : Deactivate(k)
    \/ Restart

Spec == Init /\ [][Next]_vars

\* A server that has been up for a while: one key on plan p, called
\* limits[p] - 1 times in month 0, every call at microsecond 0, every call
\* accepted and analysed without an exception.
InitWarm ==
    \E p \in PlanTier :
        /\ api_keys = GenerateApiKey(EmptyDict, Token(1), "u1", p)
        /\ requests = Put(EmptyDict, Token(1),
                          [count |-> limits[p] - 1, reset_time |-> CurrentMonth(Epoch)])
        /\ stats = [total_samples_analyzed |-> limits[p] - 1, last_analysis |-> Epoch]
        /\ now = Epoch
        /\ issued = 1
        /\ inflight = [s \in Slots |-> IdleSlot]
        /\ resp = NoResponse
        /\ payments = {}
        /\ served = 0
        /\ accepted = [k \in Tokens |->
                          [month |-> 0, n |-> IF k = Token(1) THEN limits[p] - 1 ELSE 0]]
        /\ since = [k \in Tokens |-> IF k = Token(1) THEN limits[p] - 1 ELSE 0]
        /\ lost = {}
        /\ raced = {}
        /\ revoked = {}

SpecWarm == InitWarm /\ [][Next]_vars

\* ------------------------------------------------------------- steps
\* Step predicates used by the properties below.

\* get_api_key answers the request in slot s in this step.
AuthStep(s) ==
    /\ inflight[s].pc = "auth"
    /\ \/ inflight'[s].pc = "body"
       \/ inflight'[s].pc = "idle" /\ resp' # NoResponse

\* analyze_sample runs for the request in slot s in this step.
AnalyzeStep(s) ==
    /\ inflight[s].pc = "body"
    /\ inflight[s].endpoint = "analyze"
    /\ inflight'[s].pc = "idle"
    /\ resp'.endpoint = "analyze"

AllIdle == \A s \in Slots : inflight[s].pc = "idle"

\* generate_key answers a request in this step.
GenerateStep ==
    /\ served' = served + 1
    /\ inflight' = inflight
    /\ resp'.endpoint = "generate"

\* ------------------------------------------------------------- C1
\* C1: for every key, the check_rate_limit calls of one calendar month that
\* return True number at most limits[plan].
C1_MonthlyQuota ==
    \A k \in DOMAIN api_keys : accepted[k].n <= limits[api_keys[k].plan]

\* ------------------------------------------------------------- C2
\* C2: a check_rate_limit call zeroes the key's counter (leaving it at 1
\* after the increment) exactly when the call's month is later than the
\* month of the stored reset_time.
C2_ResetOnlyOnLaterMonth ==
    [][\A s \in Slots :
         LET k == inflight[s].header
         IN  (AnalyzeStep(s) /\ k \in DOMAIN requests)
             => ((requests'[k].count = 1)
                 <=> (requests[k].reset_time.month < now'.month))]_vars

\* ------------------------------------------------------------- C3
\* C3: on the protected endpoints a request without X-API-Key is answered
\* 401, a request whose key is not in the map or is inactive is answered
\* 403, and only a key in the map and active reaches the endpoint body.
C3_Authentication ==
    [][\A s \in Slots :
         LET h == inflight[s].header
             known == h \in DOMAIN api_keys
         IN  AuthStep(s)
             => /\ h = NoHeader
                      => inflight'[s].pc = "idle" /\ resp'.status = 401
                /\ (h # NoHeader /\ (~known \/ ~api_keys[h].is_active))
                      => inflight'[s].pc = "idle" /\ resp'.status = 403
                /\ inflight'[s].pc = "body"
                      => known /\ api_keys[h].is_active]_vars

\* A deactivated key of the map has been answered 403.
C3_Witness ==
    /\ resp.status = 403
    /\ resp.header \in DOMAIN api_keys
    /\ ~api_keys[resp.header].is_active

\* ------------------------------------------------------------- C4
\* C4: an analyze request that succeeds uses a key whose user has a
\* completed Stripe checkout (a checkout.session.completed webhook event).
C4_PaidAccess ==
    (resp.endpoint = "analyze" /\ resp.status = 200 /\ resp.header \in DOMAIN api_keys)
        => api_keys[resp.header].user_id \in payments

\* ------------------------------------------------------------- C5
\* C5: a webhook call whose stripe-signature is missing or wrong is
\* answered 400 and leaves the key map, the counters and the stats as
\* they were.
C5_UnverifiedWebhook ==
    [][(served' # served /\ resp'.endpoint = "webhook" /\ resp'.sig # "valid")
          => /\ resp'.status = 400
             /\ resp'.raised
             /\ api_keys' = api_keys
             /\ requests' = requests
             /\ stats' = stats]_vars

\* A webhook call with a wrong signature has been answered, on a server
\* that holds a key.
C5_Witness ==
    /\ resp.endpoint = "webhook"
    /\ resp.sig = "wrong"
    /\ resp.status = 400
    /\ api_keys # EmptyDict

\* ------------------------------------------------------------- C6
\* C6 as stated: every exception caught in an endpoint body is answered 500.
C6_CatchAll500 == resp.raised => resp.status = 500

\* C6 amended: an exception caught in the body of analyze, subscribe or
\* key/generate is answered 500; one caught in the webhook is answered 400.
C6_CatchAllByEndpoint ==
    resp.raised =>
        resp.status = IF resp.endpoint = "webhook" THEN 400 ELSE 500

\* An exception raised inside analyze_sample's try block has been answered.
C6_Witness ==
    /\ resp.raised
    /\ resp.endpoint = "analyze"
    /\ resp.status = 500

C8_Lifecycle ==
    [][\A s \in Slots :
         /\ (AuthStep(s) /\ inflight'[s].pc = "idle")
               => /\ resp'.status \in {401, 403}
                  /\ requests' = requests
                  /\ stats' = stats
         /\ (AnalyzeStep(s) /\ resp'.status = 429) => stats' = stats
         /\ (inflight'[s].pc = "body") => inflight[s].pc \in {"auth", "body"}
         /\ (requests' # requests /\ requests' # EmptyDict)
               => \E o \in Slots : AnalyzeStep(o)
         /\ (stats' # stats /\ stats' # StatsInit)
               => \E o \in Slots :
                     /\ AnalyzeStep(o)
                     /\ resp'.status \in {200, 500}
                     /\ requests'[inflight[o].header].count
                            <= limits[api_keys[inflight[o].header].plan]]_vars

\* A request over its quota has been answered 429.
C8_Witness ==
    /\ resp.endpoint = "analyze"
    /\ resp.status = 429
    /\ stats.total_samples_analyzed > 0

\* ------------------------------------------------------------- C9
\* C9: a restart empties the key map, the counters and the stats; no key
\* issued before a restart is in the map afterwards, and a request with
\* such a key is answered 403.
C9_LostOnRestart ==
    [][/\ \A k \in lost' : k \notin DOMAIN api_keys'
       /\ lost' # lost
             => /\ api_keys' = EmptyDict
                /\ requests' = EmptyDict
                /\ stats' = [total_samples_analyzed |-> 0, last_analysis |-> None]
       /\ \A s \in Slots :
             (AuthStep(s) /\ inflight[s].header \in lost)
                 => inflight'[s].pc = "idle" /\ resp'.status = 403]_vars

\* A key issued before a restart has been answered 403.
C9_Witness ==
    /\ resp.status = 403
    /\ resp.header \in lost

\* ------------------------------------------------------------- C10
\* C10: the three quota tables agree, and for a key with count n whose
\* stored reset_time is in the month of the call, check_rate_limit returns
\* True exactly when check_subscription_limits does for requests_used = n.
C10_AdmissionRulesAgree ==
    [][/\ \A p \in PlanTier :
             /\ limits[p] = plan_limits[p]
             /\ limits[p] = PRICING_PLANS[p].requests_limit
       /\ \A s \in Slots :
             LET k == inflight[s].header
             IN  (/\ AnalyzeStep(s)
                  /\ k \in DOMAIN requests
                  /\ requests[k].reset_time.month = now'.month)
                 => (check_subscription_limits(
                         [plan |-> api_keys[k].plan,
                          requests_used |-> requests[k].count])
                     <=> resp'.status # 429)]_vars

C12_StatsInvariant ==
    [][/\ \A s \in Slots :
             AnalyzeStep(s)
                 => stats'.total_samples_analyzed =
                        stats.total_samples_analyzed
                            + (IF resp'.status = 200 THEN 1 ELSE 0)
       /\ (~\E s \in Slots : AnalyzeStep(s))
             => (stats' = stats \/ (stats' = StatsInit /\ lost' = lost \cup DOMAIN api_keys
                                                      /\ resp' = NoResponse))
       /\ (stats'.last_analysis = None) <=> (stats'.total_samples_analyzed = 0)]_vars

\* ------------------------------------------------------------- C13
\* C13: a key/generate request answered 500 leaves APIKeyManager.api_keys
\* as it was before the request, and a key is added to the map only by a
\* request that is answered 200 with that key.
C13_GenerateErrorLeavesKeys ==
    [][GenerateStep
          => /\ resp'.status = 500 => api_keys' = api_keys
             /\ \A k \in DOMAIN api_keys' \ DOMAIN api_keys :
                   resp'.status = 200 /\ resp'.key = k]_vars

=============================================================================
